---- MODULE Spec2Model ----
(***************************************************************************)
(* Alert evaluation engine and template resolver of health_check.          *)
(*                                                                         *)
(*   Spec           the scheduler: alerting_loop -> evaluate_all_triggers  *)
(*                  -> TriggerEvaluator.evaluate_trigger, with the         *)
(*                  maintenance windows the management API creates.        *)
(*   SpecLive       Spec with the event loop's fairness.                   *)
(*   SpecShutdown   Spec with the cancellation of the scheduler task at    *)
(*                  shutdown and the restart of the server.                *)
(*   SpecEval       ExpressionEvaluator.evaluate_trigger applied to        *)
(*                  trigger rows over a sequence of calls.                 *)
(*   SpecTemplates  TemplateResolver.resolve_template_chain and            *)
(*                  merge_template_items over template parent graphs.      *)
(*   SpecFn         parse_threshold, evaluate_simple and evaluate_compound *)
(*                  each called once on an input.                          *)
(*   SpecIngest     Spec with the alert webhook.                           *)
(*   SpecParents    set_parent_template over acyclic parent graphs.        *)
(*   SpecChains     set_parent_template followed by                        *)
(*                  resolve_template_chain on a long parent line.          *)
(*   SpecConfig     bulk_assign_devices and get_effective_config.          *)
(*   SpecCommands   the command execution endpoints.                       *)
(*                                                                         *)
(* Metric values and thresholds are small integers (the code compares      *)
(* floats; only their order matters here).  Time is in seconds.            *)
(***************************************************************************)
EXTENDS Integers, Sequences, FiniteSets, TLC

VARIABLES
    now,                \* datetime.utcnow()
    trigger,            \* triggers table: the configuration columns of each row
    last_state,         \* Trigger.last_state
    state_since,        \* Trigger.state_since
    last_evaluated_at,  \* Trigger.last_evaluated_at
    windows,            \* maintenance_windows table
    pc,                 \* position of alerting_loop
    loaded,             \* triggers loaded by evaluate_all_triggers for this tick
    ticks,              \* number of ticks started
    trigger_states,     \* TriggerEvaluator.trigger_states
    created,            \* AlertEvent objects constructed by the scheduler
    alert_events,       \* alert_events table (committed rows)
    returned,           \* `events` list of the running evaluate_all_triggers
    tick_log,           \* per trigger: what its last scheduler evaluation saw
    calls,              \* number of ExpressionEvaluator.evaluate_trigger calls
    result,             \* what the last ExpressionEvaluator call returned
    call,               \* the last ExpressionEvaluator call: inputs and pre-state
    prev_raw,           \* per trigger: raw verdict of its previous evaluated call
    streak_start,       \* per trigger: start of the current run of raw PROBLEM
    sustained,          \* per trigger: raw PROBLEM was held for `duration` once
    clean,              \* per trigger: raw PROBLEM on every evaluated call since state_since was set
    alerted,            \* per trigger: number of calls that returned should_alert
    templates,          \* templates table: the ids of its rows
    parent_template_id, \* Template.parent_template_id
    items,              \* Template.items
    rpc,                \* position of the running resolve_template_chain / merge
    given,              \* resolve_template_chain: the `template` argument
    chain,              \* resolve_template_chain: chain
    current,            \* resolve_template_chain: current
    visited,            \* resolve_template_chain: visited
    depth,              \* resolve_template_chain: depth
    error,              \* the ValueError resolve_template_chain raised
    resolved,           \* the list resolve_template_chain returned
    merged_items,       \* the dict merge_template_items returned
    fn_call,            \* the evaluator function last called, with its arguments
    fn_ret,             \* what that call returned, or that it raised
    received,           \* number of webhook requests handled
    webhook_status,     \* HTTP status of the last webhook response
    requests,           \* number of set_parent_template requests handled
    request,            \* the last set_parent_template request
    response,           \* HTTP status of its response
    group_templates,    \* the templates of device.host_groups, in iteration order
    device_template,    \* device_template table: priority of each direct assignment
    template_triggers,  \* Template.triggers
    assigned,           \* number of bulk_assign_devices requests handled
    config,             \* what get_effective_config returned
    executions,         \* command_executions table, in queued_at order
    polled,             \* what the last pending-commands poll returned
    command_status      \* HTTP status of the last commands response

vars == << now, trigger, last_state, state_since, last_evaluated_at, windows,
           pc, loaded, ticks, trigger_states, created, alert_events, returned,
           tick_log, calls, result, call, prev_raw, streak_start, sustained,
           clean, alerted, templates, parent_template_id, items, rpc, given,
           chain, current, visited, depth, error, resolved, merged_items,
           fn_call, fn_ret, received, webhook_status, requests, request,
           response, group_templates, device_template, template_triggers,
           assigned, config, executions, polled, command_status >>

trigger_vars == << last_state, state_since, last_evaluated_at >>
sched_vars   == << pc, loaded, ticks, trigger_states, created, alert_events,
                   returned, tick_log >>
eval_vars    == << calls, result, call, prev_raw, streak_start, sustained,
                   clean, alerted >>
alerting_vars == << now, trigger, trigger_vars, windows, sched_vars, eval_vars >>
template_vars == << templates, parent_template_id, items >>
resolver_vars == << rpc, given, chain, current, visited, depth, error,
                    resolved, merged_items >>
fn_vars       == << fn_call, fn_ret >>
webhook_vars  == << received, webhook_status >>
parent_vars   == << requests, request, response >>
assign_vars   == << group_templates, device_template, template_triggers,
                    assigned, config >>
command_vars  == << executions, polled, command_status >>
api_vars      == << fn_vars, webhook_vars, parent_vars, assign_vars, command_vars >>

----------------------------------------------------------------------------
(* Bounds *)

MaxTicks  == 3      \* scheduler ticks explored
MaxCalls  == 3      \* ExpressionEvaluator calls explored
MaxValue  == 3      \* metric values are 0..MaxValue
MaxWindows == 1     \* maintenance windows created
MaxWebhooks == 1    \* webhook requests handled
MaxAlerts == 1      \* alerts in one webhook payload
MaxRequests == 2    \* set_parent_template requests handled
MaxAssignments == 2 \* bulk_assign_devices requests handled
MaxGroupTemplates == 2  \* templates reached through the device's host groups
MaxExecutions == 2  \* command executions queued

(* Program constants *)

ALERTING_INTERVAL == 60
None == -1          \* Python None / SQL NULL where a number is expected
BadNumber == -2     \* a token float() rejects: "1.2.3" as a threshold, "abc" as a JSON value
Null == "None"      \* Python None / SQL NULL where a string is expected

Values     == 0 .. MaxValue
TriggerIds == {1, 2}
Devices    == {"d1"}
HostGroups == {"g1"}

host_groups(d) == IF d = "d1" THEN {"g1"} ELSE {}

----------------------------------------------------------------------------
(* Expressions.  A stored expression string is kept as what the regular    *)
(* expressions of the two evaluators can see of it: the leading            *)
(* identifier, the run of operator characters that follows it and the      *)
(* numeric token that ends it (None when the text has no such part).       *)

Expr(m, o, t) == [metric |-> m, op |-> o, thr |-> t]

GT == << ">" >>
LT == << "<" >>
GE == << ">", "=" >>
LE == << "<", "=" >>
EQ1 == << "=" >>
EQ2 == << "=", "=" >>
NE1 == << "!", "=" >>
NE2 == << "<", ">" >>

cpu_gt_2        == Expr("cpu", GT, 2)           \* "cpu > 2"
cpu_lt_1        == Expr("cpu", LT, 1)           \* "cpu < 1"
external_grafana == Expr("external", << >>, None) \* "external:grafana"
no_metric       == Expr(Null, GE, 2)            \* ">= 2"
NoExpr          == Expr(Null, << >>, None)      \* None or ""

(* "{"operator": "and", "conditions": [{"metric": "cpu", "operator": ">", *)
(*   "value": 2}]}"                                                        *)
(* `json` tells what json.loads makes of the text: an object, an array,   *)
(* or nothing (invalid JSON).                                              *)
NoCompound   == [json |-> Null, operator |-> Null, conditions |-> << >>]   \* None or ""
cpu_compound == [json |-> "object", operator |-> "and",
                 conditions |-> << [metric |-> "cpu", operator |-> GT, value |-> 2] >>]

DurationChoices == {0, 2 * ALERTING_INTERVAL}

----------------------------------------------------------------------------
(* TriggerEvaluator (services/alerting.py)                                 *)

CmpChars == {">", "<", "="}

\* The operator group of the pattern of parse_threshold under re.search:
\* the longest run of the characters ><= that ends the operator text.
RECURSIVE threshold_op(_)
threshold_op(op) ==
    IF op = << >> THEN << >>
    ELSE IF op[Len(op)] \in CmpChars
         THEN Append(threshold_op(SubSeq(op, 1, Len(op) - 1)), op[Len(op)])
         ELSE << >>

(* float(match.group(2)) raises ValueError. *)
parse_threshold_raises(expression) ==
    threshold_op(expression.op) # << >> /\ expression.thr = BadNumber

parse_threshold(expression, value) ==
    LET op        == threshold_op(expression.op)
        threshold == expression.thr
        match     == op # << >> /\ threshold # None
    IN  IF match
        THEN IF      op = GT  /\ value > threshold  THEN "PROBLEM"
             ELSE IF op = GE  /\ value >= threshold THEN "PROBLEM"
             ELSE IF op = LT  /\ value < threshold  THEN "PROBLEM"
             ELSE IF op = LE  /\ value <= threshold THEN "PROBLEM"
             ELSE IF op = EQ2 /\ value = threshold  THEN "PROBLEM"
             ELSE "OK"
        ELSE IF value > 0 THEN "PROBLEM" ELSE "OK"

(* query_vm: no leading identifier -> None; otherwise whatever the metrics *)
(* backend answers (a value, or None for no data / an HTTP error).         *)
query_vm_zero(expression, backend) ==
    IF expression.metric = Null \/ backend = None THEN 0 ELSE backend
query_vm(expression, backend) ==
    IF expression.metric = Null THEN None ELSE backend

(* MaintenanceService.is_device_in_maintenance *)
is_device_in_maintenance(device_id, ws, t) ==
    /\ device_id \in Devices
    /\ \E w \in ws :
          /\ w.active
          /\ w.start_time <= t
          /\ w.end_time >= t
          /\ \/ w.scope_type = "all"
             \/ w.scope_type = "device" /\ w.device_id = device_id
             \/ /\ host_groups(device_id) # {}
                /\ w.scope_type = "hostgroup"
                /\ w.hostgroup_id \in host_groups(device_id)

AlertEvent(t, device_id, status, value) ==
    [trigger_id |-> t, device_id |-> device_id, status |-> status,
     created_at |-> now]

(* `if new_state != old_state` *)
state_changed_always(new_state, old_state) == TRUE
state_changed(new_state, old_state) == new_state # old_state

(* dict.get(str(trigger.id), "OK") *)
old_state_of(states, t) == IF states[t] = Null THEN "OK" ELSE states[t]

(* Start of the run of raw PROBLEM verdicts the scheduler has seen for t.  *)
raw_since(t, new_state) ==
    IF new_state # "PROBLEM" THEN None
    ELSE IF tick_log[t].since # None THEN tick_log[t].since ELSE now

NoTick == [time |-> None, new_state |-> Null, old_state |-> Null,
           event |-> FALSE, since |-> None, no_data |-> FALSE]

(* TriggerEvaluator.evaluate_trigger, as one step of the loop of           *)
(* evaluate_all_triggers.  backend: the answer of the metrics backend;     *)
(* commit_ok: whether db.commit() succeeds (it raises otherwise and the    *)
(* caller's except clause logs the error).                                 *)
TriggerEvaluator_evaluate_trigger(t, device_id, backend, commit_ok) ==
    LET value     == query_vm(trigger[t].expression, backend)
        new_state == parse_threshold(trigger[t].expression, value)
        old_state == old_state_of(trigger_states, t)
        event     == AlertEvent(t, device_id, new_state, value)
        seen(ns, ev) == [time |-> now, new_state |-> ns, old_state |-> old_state,
                         event |-> ev, since |-> raw_since(t, ns),
                         no_data |-> backend = None]
    IN  IF device_id # Null /\ is_device_in_maintenance(device_id, windows, now)
        THEN /\ tick_log' = [tick_log EXCEPT ![t] = seen(Null, FALSE)]
             /\ UNCHANGED << trigger_states, created, alert_events, returned >>
        ELSE IF value = None
        THEN /\ tick_log' = [tick_log EXCEPT ![t] = seen(Null, FALSE)]
             /\ UNCHANGED << trigger_states, created, alert_events, returned >>
        ELSE IF state_changed(new_state, old_state)
        THEN /\ trigger_states' = [trigger_states EXCEPT ![t] = new_state]
             /\ created' = Append(created, event)
             /\ IF commit_ok
                THEN /\ alert_events' = Append(alert_events, event)
                     /\ returned' = Append(returned, event)
                ELSE UNCHANGED << alert_events, returned >>
             /\ tick_log' = [tick_log EXCEPT ![t] = seen(new_state, TRUE)]
        ELSE /\ tick_log' = [tick_log EXCEPT ![t] = seen(new_state, FALSE)]
             /\ UNCHANGED << trigger_states, created, alert_events, returned >>

(* db.query(Trigger).filter(Trigger.enabled == True).all() *)
RECURSIVE enabled_from(_)
enabled_from(t) ==
    IF t \notin TriggerIds THEN << >>
    ELSE IF trigger[t].enabled THEN << t >> \o enabled_from(t + 1)
    ELSE enabled_from(t + 1)

(* `except Exception as e: logger.error(...)` inside the for loop of       *)
(* evaluate_all_triggers: the loop goes on with the next trigger whether   *)
(* or not the evaluation of this one raised.                               *)
remaining_abort(triggers, raised) == IF raised THEN << >> ELSE Tail(triggers)
remaining(triggers, raised) == Tail(triggers)

(* `except Exception as e: logger.error(...)` of alerting_loop: the loop   *)
(* falls through to asyncio.sleep.                                         *)
after_tick_error_exit == "exited"
after_tick_error == "sleeping"

(* alerting_loop: `with closing(SessionLocal()) as db` and the first line  *)
(* of evaluate_all_triggers.                                               *)
StartTick ==
    /\ pc = "tick_start"
    /\ ticks < MaxTicks
    /\ pc' = "evaluating"
    /\ ticks' = ticks + 1
    /\ loaded' = enabled_from(1)
    /\ returned' = << >>
    /\ UNCHANGED << now, trigger, trigger_vars, windows, trigger_states,
                    created, alert_events, tick_log, eval_vars,
                    template_vars, resolver_vars, api_vars >>

(* SessionLocal() or the query that loads the triggers raises (database    *)
(* unreachable): the exception leaves evaluate_all_triggers and is caught  *)
(* by alerting_loop.                                                       *)
TickFails ==
    /\ pc = "tick_start"
    /\ ticks < MaxTicks
    /\ pc' = after_tick_error
    /\ ticks' = ticks + 1
    /\ loaded' = << >>
    /\ returned' = << >>
    /\ UNCHANGED << now, trigger, trigger_vars, windows, trigger_states,
                    created, alert_events, tick_log, eval_vars,
                    template_vars, resolver_vars, api_vars >>

(* One iteration of `for trigger in triggers` of evaluate_all_triggers,    *)
(* which passes no device_id.                                              *)
EvaluateNext ==
    /\ pc = "evaluating"
    /\ loaded # << >>
    /\ \E backend \in Values \cup {None}, commit_ok \in BOOLEAN :
          /\ TriggerEvaluator_evaluate_trigger(Head(loaded), Null, backend, commit_ok)
          /\ loaded' = remaining(loaded, created' # created /\ ~ commit_ok)
    /\ UNCHANGED << now, trigger, trigger_vars, windows, pc, ticks, eval_vars,
                    template_vars, resolver_vars, api_vars >>

(* evaluate_all_triggers returns; the loop reaches asyncio.sleep.          *)
FinishTick ==
    /\ pc = "evaluating"
    /\ loaded = << >>
    /\ pc' = "sleeping"
    /\ UNCHANGED << now, trigger, trigger_vars, windows, loaded, ticks,
                    trigger_states, created, alert_events, returned, tick_log,
                    eval_vars, template_vars, resolver_vars, api_vars >>

(* await asyncio.sleep(ALERTING_INTERVAL) *)
Sleep ==
    /\ pc = "sleeping"
    /\ pc' = "tick_start"
    /\ now' = now + ALERTING_INTERVAL
    /\ UNCHANGED << trigger, trigger_vars, windows, loaded, ticks,
                    trigger_states, created, alert_events, returned, tick_log,
                    eval_vars, template_vars, resolver_vars, api_vars >>

(* api/maintenance.py create_maintenance_window.  The request schedules   *)
(* the window: start_time and end_time are inputs.                         *)
create_maintenance_window(scope_type, device_id, hostgroup_id, start_time, end_time) ==
    /\ ~ (scope_type = "device" /\ device_id = Null)
    /\ ~ (scope_type = "hostgroup" /\ hostgroup_id = Null)
    /\ ~ (scope_type = "all" /\ (device_id # Null \/ hostgroup_id # Null))
    /\ windows' = windows \cup
          {[scope_type |-> scope_type, device_id |-> device_id,
            hostgroup_id |-> hostgroup_id, start_time |-> start_time,
            end_time |-> end_time, active |-> TRUE]}
    /\ UNCHANGED << now, trigger, trigger_vars, sched_vars, eval_vars,
                    template_vars, resolver_vars, api_vars >>

(* Windows are scheduled ahead, before the worker's first tick. *)
CreateWindow ==
    /\ Cardinality(windows) < MaxWindows
    /\ ticks = 0
    /\ \E scope_type \in {"all", "device", "hostgroup"},
          device_id \in Devices \cup {Null},
          hostgroup_id \in HostGroups \cup {Null} :
          /\ scope_type # "device" => hostgroup_id = Null
          /\ scope_type # "hostgroup" => device_id = Null
          /\ create_maintenance_window(scope_type, device_id, hostgroup_id,
                                       now, now + ALERTING_INTERVAL)

TriggerRow(e, en, d, p) ==
    [expression |-> e, enabled |-> en, duration |-> d, parent_trigger_id |-> p,
     recovery_expression |-> NoExpr, expression_type |-> "simple",
     compound_expression |-> NoCompound]

NoCall == [trigger_id |-> None, kind |-> Null]

EvalIdle ==
    /\ calls = 0
    /\ result = NoCall
    /\ call = NoCall
    /\ prev_raw = [t \in TriggerIds |-> Null]
    /\ streak_start = [t \in TriggerIds |-> None]
    /\ sustained = [t \in TriggerIds |-> FALSE]
    /\ clean = [t \in TriggerIds |-> FALSE]
    /\ alerted = [t \in TriggerIds |-> 0]

(* An empty templates table and no resolver call. *)
ResolverIdle ==
    /\ rpc = "idle"
    /\ given = None
    /\ chain = << >>
    /\ current = None
    /\ visited = {}
    /\ depth = 0
    /\ error = Null
    /\ resolved = << >>
    /\ merged_items = << >>

NoTemplates ==
    /\ templates = {}
    /\ parent_template_id = << >>
    /\ items = << >>
    /\ ResolverIdle

(* No evaluator function was called directly. *)
NoFn == [fn |-> Null]

FnIdle ==
    /\ fn_call = NoFn
    /\ fn_ret = NoFn

WebhookIdle ==
    /\ received = 0
    /\ webhook_status = None

NoRequest == [template_id |-> None, parent_template_id |-> None]

ParentIdle ==
    /\ requests = 0
    /\ request = NoRequest
    /\ response = None

NoConfig == [device_id |-> Null]

AssignIdle ==
    /\ group_templates = << >>
    /\ device_template = << >>
    /\ template_triggers = << >>
    /\ assigned = 0
    /\ config = NoConfig

CommandsIdle ==
    /\ executions = << >>
    /\ polled = << >>
    /\ command_status = None

ApiIdle ==
    /\ FnIdle
    /\ WebhookIdle
    /\ ParentIdle
    /\ AssignIdle
    /\ CommandsIdle

(* The worker starts with an empty trigger_states; the rows of the         *)
(* triggers table were never evaluated.  Trigger 1 carries a duration;     *)
(* trigger 2 depends on trigger 1, may be disabled, and is a threshold     *)
(* trigger, a trigger created by the webhook or one whose expression has   *)
(* no metric name.                                                         *)
Init ==
    /\ now = 0
    /\ \E en \in BOOLEAN, e \in {cpu_gt_2, external_grafana, no_metric} :
          trigger = [t \in TriggerIds |->
                        IF t = 1 THEN TriggerRow(cpu_gt_2, TRUE, 2 * ALERTING_INTERVAL, None)
                                 ELSE TriggerRow(e, en, 0, 1)]
    /\ last_state = [t \in TriggerIds |-> Null]
    /\ state_since = [t \in TriggerIds |-> None]
    /\ last_evaluated_at = [t \in TriggerIds |-> None]
    /\ windows = {}
    /\ pc = "tick_start"
    /\ loaded = << >>
    /\ ticks = 0
    /\ trigger_states = [t \in TriggerIds |-> Null]
    /\ created = << >>
    /\ alert_events = << >>
    /\ returned = << >>
    /\ tick_log = [t \in TriggerIds |-> NoTick]
    /\ EvalIdle
    /\ NoTemplates
    /\ ApiIdle

Next ==
    \/ StartTick
    \/ TickFails
    \/ EvaluateNext
    \/ FinishTick
    \/ Sleep
    \/ CreateWindow

Spec == Init /\ [][Next]_vars

(* lifespan shutdown: task.cancel().  CancelledError is raised inside the  *)
(* task at the await it is suspended on: asyncio.sleep, or the HTTP        *)
(* request of query_vm for the trigger being evaluated (a trigger without  *)
(* a metric name returns before the request).  It derives from             *)
(* BaseException, so no `except Exception` between there and the task's    *)
(* top catches it; the triggers still in `loaded` are never evaluated.     *)
suspended ==
    \/ pc \in {"tick_start", "sleeping"}
    \/ /\ pc = "evaluating"
       /\ loaded # << >>
       /\ trigger[Head(loaded)].expression.metric # Null

Cancel ==
    /\ suspended
    /\ pc' = "cancelled"
    /\ UNCHANGED << now, trigger, trigger_vars, windows, loaded, ticks,
                    trigger_states, created, alert_events, returned, tick_log,
                    eval_vars, template_vars, resolver_vars, api_vars >>

(* The server is started again: lifespan creates a new task, alerting_loop *)
(* a new TriggerEvaluator with an empty trigger_states.  The tables stay.  *)
Restart ==
    /\ pc = "cancelled"
    /\ pc' = "tick_start"
    /\ trigger_states' = [t \in TriggerIds |-> Null]
    /\ loaded' = << >>
    /\ returned' = << >>
    /\ UNCHANGED << now, trigger, trigger_vars, windows, ticks, created,
                    alert_events, tick_log, eval_vars, template_vars,
                    resolver_vars, api_vars >>

NextShutdown ==
    \/ Next
    \/ Cancel
    \/ Restart

SpecShutdown == Init /\ [][NextShutdown]_vars

(* The event loop keeps running the task: a ready step of alerting_loop is *)
(* eventually taken and asyncio.sleep returns.                             *)
SpecLive ==
    /\ Init
    /\ [][Next]_vars
    /\ WF_vars(StartTick \/ TickFails)
    /\ WF_vars(EvaluateNext)
    /\ WF_vars(FinishTick)
    /\ WF_vars(Sleep)

----------------------------------------------------------------------------
(* ExpressionEvaluator (services/expression_evaluator.py)                  *)

OpChars == {">", "<", "=", "!"}

OPERATORS == {GT, LT, GE, LE, EQ1, EQ2, NE1, NE2}

op_func(op, a, b) ==
    IF      op = GT THEN a > b
    ELSE IF op = LT THEN a < b
    ELSE IF op = GE THEN a >= b
    ELSE IF op = LE THEN a <= b
    ELSE IF op \in {EQ1, EQ2} THEN a = b
    ELSE a # b

NoParse == [metric |-> Null, operator |-> << >>, threshold |-> None]

\* The third pattern of parse_simple_expression under re.match: an
\* identifier, a run of the operator characters ><=! and a number.
parse_simple_expression(expression) ==
    IF /\ expression.metric # Null
       /\ expression.op # << >>
       /\ \A i \in 1 .. Len(expression.op) : expression.op[i] \in OpChars
       /\ expression.thr # None
    THEN [metric |-> expression.metric, operator |-> expression.op,
          threshold |-> expression.thr]
    ELSE NoParse

(* float(groups[2]) raises ValueError. *)
parse_simple_expression_raises(expression) ==
    /\ expression.metric # Null
    /\ expression.op # << >>
    /\ \A i \in 1 .. Len(expression.op) : expression.op[i] \in OpChars
    /\ expression.thr = BadNumber

Verdict(p) == [is_problem |-> p, state |-> IF p THEN "PROBLEM" ELSE "OK"]
Unknown    == [is_problem |-> FALSE, state |-> "UNKNOWN"]

evaluate_simple(expression, current_value) ==
    LET parsed == parse_simple_expression(expression)
    IN  IF parsed = NoParse THEN Unknown
        ELSE IF parsed.operator \notin OPERATORS THEN Unknown
        ELSE Verdict(op_func(parsed.operator, current_value, parsed.threshold))

evaluate_simple_raises(expression, current_value) ==
    parse_simple_expression_raises(expression)

(* dict.get *)
get(values, key) == IF key \in DOMAIN values THEN values[key] ELSE None

condition_result_missing_true(cond, values) ==
    LET current_value == get(values, cond.metric)
    IN  IF current_value = None THEN TRUE
        ELSE IF cond.operator \in OPERATORS
             THEN op_func(cond.operator, current_value, cond.value)
             ELSE FALSE
condition_result(cond, values) ==
    LET current_value == get(values, cond.metric)
    IN  IF current_value = None THEN FALSE
        ELSE IF cond.operator \in OPERATORS
             THEN op_func(cond.operator, current_value, cond.value)
             ELSE FALSE

(* str.lower *)
lower(str) ==
    CASE str = "AND" -> "and"
      [] str = "OR" -> "or"
      [] str = "Resolved" -> "resolved"
      [] OTHER -> str

(* expr.get('operator', 'and').lower() *)
logical_op(expr) == IF expr.operator = Null THEN "and" ELSE lower(expr.operator)

(* What escapes evaluate_compound: expr.get on a value that is not a dict  *)
(* (AttributeError), float() of a condition value that is not a number     *)
(* (ValueError); only json.JSONDecodeError is caught.                      *)
evaluate_compound_raises(expr, values) ==
    \/ expr.json = "array"
    \/ /\ expr.json = "object"
       /\ \E i \in 1 .. Len(expr.conditions) : expr.conditions[i].value = BadNumber

evaluate_compound(expr, values) ==
    LET conditions == expr.conditions
        results == [i \in 1 .. Len(conditions) |->
                       condition_result(conditions[i], values)]
    IN  IF expr.json = "invalid" THEN Unknown
        ELSE IF conditions = << >> THEN Verdict(FALSE)
        ELSE IF logical_op(expr) = "and"
             THEN Verdict(\A i \in 1 .. Len(results) : results[i])
        ELSE IF logical_op(expr) = "or"
             THEN Verdict(\E i \in 1 .. Len(results) : results[i])
        ELSE Verdict(results[1])

(* check_duration: the return value and the two fields it may assign.  Its *)
(* own utcnow() read falls in the same second as the caller's, n.          *)
check_duration(t, current_state, n) ==
    LET changed == last_state[t] # current_state
        since   == IF changed THEN n ELSE state_since[t]
    IN  [ret |-> /\ current_state = "PROBLEM"
                 /\ since # None
                 /\ n - since >= trigger[t].duration,
         state_since |-> since,
         last_state  |-> current_state]

check_dependencies_ignored(t) == TRUE
check_dependencies(t) ==
    LET parent == trigger[t].parent_trigger_id
    IN  IF parent = None THEN TRUE
        ELSE IF parent \notin TriggerIds THEN TRUE
        ELSE last_state[parent] # "PROBLEM"

evaluate_recovery(t, current_value) ==
    IF trigger[t].recovery_expression = NoExpr
    THEN ~ evaluate_simple(trigger[t].expression, current_value).is_problem
    ELSE evaluate_simple(trigger[t].recovery_expression, current_value).is_problem

Result(alert, state, value, message) ==
    [should_alert |-> alert, state |-> state, value |-> value,
     message |-> message]

(* What a call saw: when it ran, how it ended (suppressed, no_value, held  *)
(* or done), the raw verdict of the values it was given, and the trigger's *)
(* fields before it.                                                       *)
Call(t, n, kind, raw, recovery_true) ==
    [trigger_id |-> t, now |-> n, kind |-> kind, raw |-> raw,
     recovery_true |-> recovery_true,
     last_state |-> last_state[t], state_since |-> state_since[t],
     last_evaluated_at |-> last_evaluated_at[t], prev_raw |-> prev_raw[t]]

(* Bookkeeping of the raw verdicts of the evaluated calls of trigger t.    *)
Observe(t, n, raw, since_assigned, alert) ==
    LET start == IF raw # "PROBLEM" THEN None
                 ELSE IF streak_start[t] # None THEN streak_start[t] ELSE n
    IN  /\ prev_raw' = [prev_raw EXCEPT ![t] = raw]
        /\ streak_start' = [streak_start EXCEPT ![t] = start]
        /\ sustained' = [sustained EXCEPT ![t] =
                            @ \/ (raw = "PROBLEM" /\ n - start >= trigger[t].duration)]
        /\ clean' = [clean EXCEPT ![t] =
                        IF since_assigned THEN raw = "PROBLEM"
                        ELSE @ /\ raw = "PROBLEM"]
        /\ alerted' = [alerted EXCEPT ![t] = IF alert THEN @ + 1 ELSE @]

(* ExpressionEvaluator.evaluate_trigger(trigger, db, device, current_values) *)
(* called at time n.                                                        *)
ExpressionEvaluator_evaluate_trigger(t, current_values, n) ==
    LET row      == trigger[t]
        compound == row.expression_type = "compound"
                    /\ row.compound_expression # NoCompound
        has_values == DOMAIN current_values # {}
        value    == get(current_values, "value")
        verdict  == IF compound
                    THEN evaluate_compound(row.compound_expression, current_values)
                    ELSE evaluate_simple(row.expression, value)
        is_problem == verdict.is_problem
        state    == verdict.state
        shown    == IF compound THEN None ELSE value
        \* the verdict of the supplied values, Null when there is none to judge
        offered  == IF (compound /\ ~ has_values) \/ (~ compound /\ value = None)
                    THEN Null ELSE state
        \* some supplied value makes the recovery expression true
        recovery_true ==
            \E k \in DOMAIN current_values :
                evaluate_simple(row.recovery_expression, current_values[k]).is_problem
        held     == /\ last_state[t] = "PROBLEM"
                    /\ ~ is_problem
                    /\ "value" \in DOMAIN current_values
                    /\ ~ evaluate_recovery(t, current_values["value"])
        cd       == check_duration(t, state, n)
        should_alert == IF row.duration > 0 THEN cd.ret ELSE is_problem
        since_assigned == last_state[t] # state
        alert    == should_alert /\ state = "PROBLEM"
    IN  /\ now' = n
        /\ calls' = calls + 1
        /\ IF ~ check_dependencies(t)
           THEN /\ result' = Result(FALSE, "OK", None, "Suppressed by parent trigger")
                /\ call' = Call(t, n, "suppressed", offered, recovery_true)
                /\ UNCHANGED << trigger_vars, prev_raw, streak_start, sustained,
                                clean, alerted >>
           ELSE IF compound /\ ~ has_values
           THEN /\ result' = Result(FALSE, "UNKNOWN", None,
                                    "No values provided for compound expression")
                /\ call' = Call(t, n, "no_value", Null, recovery_true)
                /\ UNCHANGED << trigger_vars, prev_raw, streak_start, sustained,
                                clean, alerted >>
           ELSE IF ~ compound /\ value = None
           THEN /\ result' = Result(FALSE, "UNKNOWN", None, "No value available")
                /\ call' = Call(t, n, "no_value", Null, recovery_true)
                /\ UNCHANGED << trigger_vars, prev_raw, streak_start, sustained,
                                clean, alerted >>
           ELSE IF held
           THEN /\ result' = Result(FALSE, "PROBLEM", shown, "Recovery threshold not met")
                /\ call' = Call(t, n, "held", state, recovery_true)
                /\ UNCHANGED trigger_vars
                /\ Observe(t, n, state, FALSE, FALSE)
           ELSE /\ last_evaluated_at' = [last_evaluated_at EXCEPT ![t] = n]
                /\ state_since' = [state_since EXCEPT ![t] =
                                      IF row.duration > 0 THEN cd.state_since
                                      ELSE IF last_state[t] # state THEN n ELSE @]
                /\ last_state' = [last_state EXCEPT ![t] = state]
                /\ result' = Result(alert, state, shown, "Trigger")
                /\ call' = Call(t, n, "done", state, recovery_true)
                /\ Observe(t, n, state, since_assigned, alert)

Keys == {"value", "cpu"}

CurrentValues == UNION {[d -> Values] : d \in SUBSET Keys}

EvaluateCall ==
    /\ calls < MaxCalls
    /\ \E t \in TriggerIds, cv \in CurrentValues, dt \in {0, ALERTING_INTERVAL} :
          ExpressionEvaluator_evaluate_trigger(t, cv, now + dt)
    /\ UNCHANGED << trigger, windows, sched_vars, template_vars,
                    resolver_vars, api_vars >>

EvalRow(e, ty, d, r, p) ==
    [expression |-> e, enabled |-> TRUE, duration |-> d, parent_trigger_id |-> p,
     recovery_expression |-> r, expression_type |-> ty,
     compound_expression |-> IF ty = "compound" THEN cpu_compound ELSE NoCompound]

(* Trigger 1 is a plain threshold trigger without a parent; trigger 2 is   *)
(* drawn from the column values a triggers row can hold and depends on     *)
(* trigger 1 (which gates it only while trigger 1 is in PROBLEM).          *)
InitEval ==
    /\ now = 0
    /\ \E e \in {cpu_gt_2, external_grafana}, ty \in {"simple", "compound"},
          d \in DurationChoices, r \in {NoExpr, cpu_lt_1} :
          trigger = [t \in TriggerIds |->
                        IF t = 1 THEN EvalRow(cpu_gt_2, "simple", 0, NoExpr, None)
                                 ELSE EvalRow(e, ty, d, r, 1)]
    /\ last_state = [t \in TriggerIds |-> Null]
    /\ state_since = [t \in TriggerIds |-> None]
    /\ last_evaluated_at = [t \in TriggerIds |-> None]
    /\ windows = {}
    /\ pc = "tick_start"
    /\ loaded = << >>
    /\ ticks = 0
    /\ trigger_states = [t \in TriggerIds |-> Null]
    /\ created = << >>
    /\ alert_events = << >>
    /\ returned = << >>
    /\ tick_log = [t \in TriggerIds |-> NoTick]
    /\ EvalIdle
    /\ NoTemplates
    /\ ApiIdle

NextEval == EvaluateCall

SpecEval == InitEval /\ [][NextEval]_vars

----------------------------------------------------------------------------
(* The evaluator functions called on their own                             *)

(* Two untouched trigger rows, no scheduler and no evaluator call. *)
AlertingIdle ==
    /\ now = 0
    /\ trigger = [t \in TriggerIds |-> TriggerRow(cpu_gt_2, TRUE, 0, None)]
    /\ last_state = [t \in TriggerIds |-> Null]
    /\ state_since = [t \in TriggerIds |-> None]
    /\ last_evaluated_at = [t \in TriggerIds |-> None]
    /\ windows = {}
    /\ pc = "tick_start"
    /\ loaded = << >>
    /\ ticks = 0
    /\ trigger_states = [t \in TriggerIds |-> Null]
    /\ created = << >>
    /\ alert_events = << >>
    /\ returned = << >>
    /\ tick_log = [t \in TriggerIds |-> NoTick]
    /\ EvalIdle

not_fn_vars == << alerting_vars, template_vars, resolver_vars, webhook_vars,
                 parent_vars, assign_vars, command_vars >>

Raised == [raised |-> TRUE, is_problem |-> FALSE, state |-> Null]
Returns(verdict) ==
    [raised |-> FALSE, is_problem |-> verdict.is_problem, state |-> verdict.state]

EG == << "=", ">" >>       \* "=>", matched by the patterns, not a comparator

Thresholds == {1, 2}

(* "cpu <op> <threshold>" for every comparator, "cpu => 2", "cpu > 1.2.3", *)
(* "external:grafana" and ">= 2".                                          *)
SimpleTexts ==
    {Expr("cpu", o, t) : o \in OPERATORS \cup {EG}, t \in Thresholds \cup {BadNumber}}
        \cup {external_grafana, no_metric}

CompoundMetrics == {"cpu", "mem"}

Conditions ==
    [metric : CompoundMetrics, operator : {GT, LE, EG},
     value : Thresholds \cup {BadNumber}]

ConditionLists ==
    {<< >>} \cup {<< c >> : c \in Conditions}
            \cup {<< c, d >> : c \in Conditions, d \in Conditions}

(* JSON objects with the documented keys, "[]" and text that is not JSON. *)
CompoundTexts ==
    [json : {"object"}, operator : {"and", "or", "AND", "xor", Null},
     conditions : ConditionLists]
        \cup {[json |-> j, operator |-> Null, conditions |-> << >>] :
                j \in {"array", "invalid"}}

MetricValues == UNION {[d -> Values] : d \in SUBSET CompoundMetrics}

NoRet == [raised |-> FALSE, is_problem |-> FALSE, state |-> "pending"]

(* The calls made: a function of the evaluators and its two arguments. *)
FnCalls ==
    [fn : {"parse_threshold", "evaluate_simple"}, expression : SimpleTexts,
     value : Values]
        \cup [fn : {"evaluate_compound"}, expression : CompoundTexts,
              value : MetricValues]

(* TriggerEvaluator.parse_threshold(expression, value) *)
call_parse_threshold ==
    /\ fn_call.fn = "parse_threshold"
    /\ fn_ret = NoRet
    /\ fn_ret' = IF parse_threshold_raises(fn_call.expression) THEN Raised
                 ELSE LET st == parse_threshold(fn_call.expression, fn_call.value)
                      IN  [raised |-> FALSE, is_problem |-> st = "PROBLEM",
                           state |-> st]
    /\ UNCHANGED << fn_call, not_fn_vars >>

(* ExpressionEvaluator.evaluate_simple(expression, current_value) *)
call_evaluate_simple ==
    /\ fn_call.fn = "evaluate_simple"
    /\ fn_ret = NoRet
    /\ fn_ret' = IF evaluate_simple_raises(fn_call.expression, fn_call.value)
                 THEN Raised
                 ELSE Returns(evaluate_simple(fn_call.expression, fn_call.value))
    /\ UNCHANGED << fn_call, not_fn_vars >>

(* ExpressionEvaluator.evaluate_compound(compound_expression, values) *)
call_evaluate_compound ==
    /\ fn_call.fn = "evaluate_compound"
    /\ fn_ret = NoRet
    /\ fn_ret' = IF evaluate_compound_raises(fn_call.expression, fn_call.value)
                 THEN Raised
                 ELSE Returns(evaluate_compound(fn_call.expression, fn_call.value))
    /\ UNCHANGED << fn_call, not_fn_vars >>

InitFn ==
    /\ AlertingIdle
    /\ NoTemplates
    /\ fn_call \in FnCalls
    /\ fn_ret = NoRet
    /\ WebhookIdle
    /\ ParentIdle
    /\ AssignIdle
    /\ CommandsIdle

NextFn ==
    \/ call_parse_threshold
    \/ call_evaluate_simple
    \/ call_evaluate_compound

SpecFn == InitFn /\ [][NextFn]_vars

----------------------------------------------------------------------------
(* Webhook ingestion (api/alerts.py)                                       *)

(* str.strip *)
strip(str) ==
    CASE str = " Resolved " -> "Resolved"
      [] OTHER -> str

(* str.upper *)
upper(str) ==
    CASE str = "pending" -> "PENDING"
      [] str = " Resolved " -> " RESOLVED "
      [] str = "firing" -> "FIRING"
      [] OTHER -> str

_normalize_status(raw_status) ==
    LET value == lower(strip(raw_status))     \* (raw_status or "").strip().lower()
    IN  IF value \in {"firing", "alerting", "triggered", "problem"} THEN "PROBLEM"
        ELSE IF value \in {"resolved", "ok", "normal"} THEN "OK"
        ELSE IF raw_status # "" THEN upper(raw_status) ELSE "PROBLEM"

(* GrafanaAlert.status of the alerts received *)
RawStatuses == {"firing", " Resolved ", "pending", ""}

(* An alert of the payload: the trigger its alertname label names (the    *)
(* names received are those of the rows of the triggers table; a row with *)
(* the expression "external:grafana" is one the webhook created for a     *)
(* name it had not seen) and its status.                                   *)
GrafanaAlerts == [alertname : TriggerIds, status : RawStatuses]

Payloads ==
    UNION {[1 .. n -> GrafanaAlerts] : n \in 0 .. MaxAlerts}

(* POST /alerts/webhook *)
alert_webhook ==
    /\ received < MaxWebhooks
    /\ received' = received + 1
    /\ \E payload \in Payloads, token_ok \in BOOLEAN :
          IF ~ token_ok
          THEN /\ webhook_status' = 401
               /\ UNCHANGED alert_events
          ELSE IF payload = << >>
          THEN /\ webhook_status' = 400
               /\ UNCHANGED alert_events
          ELSE /\ webhook_status' = 202
               /\ alert_events' = alert_events \o
                      [i \in 1 .. Len(payload) |->
                          AlertEvent(payload[i].alertname, None,
                                     _normalize_status(payload[i].status), None)]
    /\ UNCHANGED << now, trigger, trigger_vars, windows, eval_vars, pc, loaded,
                    ticks, trigger_states, created, returned, tick_log >>
    /\ UNCHANGED << template_vars, resolver_vars, fn_vars, parent_vars, assign_vars,
                    command_vars >>

NextIngest ==
    \/ Next
    \/ alert_webhook

SpecIngest == Init /\ [][NextIngest]_vars

----------------------------------------------------------------------------
(* TemplateResolver (services/template_resolver.py)                        *)

MAX_INHERITANCE_DEPTH == 10

MaxTemplates == 12      \* longest parent line explored
MaxSmall     == 3       \* templates whose parents and items are arbitrary

TemplateIds == 1 .. MaxTemplates
ItemKeys    == {"k1", "k2"}

TemplateItem(key, template_id) == [key |-> key, template_id |-> template_id]

(* list(reversed(chain)) *)
not_reversed(seq) == seq
reversed(seq) == [i \in 1 .. Len(seq) |-> seq[Len(seq) + 1 - i]]

(* resolve_template_chain(template, db): the assignments before the loop. *)
ResolveStart ==
    /\ rpc = "idle"
    /\ \E template \in templates :
          /\ given' = template
          /\ current' = template
    /\ chain' = << >>
    /\ visited' = {}
    /\ depth' = 0
    /\ rpc' = "walking"
    /\ UNCHANGED << alerting_vars, api_vars, template_vars, error, resolved, merged_items >>

(* One test of `while current is not None` and the iteration or the return *)
(* that follows it.                                                        *)
ResolveStep ==
    /\ rpc = "walking"
    /\ IF current = None
       THEN /\ resolved' = reversed(chain)
            /\ rpc' = "returned"
            /\ UNCHANGED << chain, current, visited, depth, error >>
       ELSE IF depth > MAX_INHERITANCE_DEPTH
       THEN /\ error' = "depth"
            /\ rpc' = "raised"
            /\ UNCHANGED << chain, current, visited, depth, resolved >>
       ELSE IF current \in visited
       THEN /\ error' = "cycle"
            /\ rpc' = "raised"
            /\ UNCHANGED << chain, current, visited, depth, resolved >>
       ELSE /\ visited' = visited \cup {current}
            /\ chain' = Append(chain, current)
            /\ current' = parent_template_id[current]
            /\ depth' = depth + 1
            /\ UNCHANGED << rpc, error, resolved >>
    /\ UNCHANGED << alerting_vars, api_vars, template_vars, given, merged_items >>

(* merged_items[item.key] = item *)
dict_setdefault(d, key, value) ==
    [k \in DOMAIN d \cup {key} |-> IF k \in DOMAIN d THEN d[k] ELSE value]
dict_set(d, key, value) ==
    [k \in DOMAIN d \cup {key} |-> IF k = key THEN value ELSE d[k]]

(* `for item in template.items` *)
RECURSIVE merge_items(_, _)
merge_items(merged, its) ==
    IF its = << >> THEN merged
    ELSE merge_items(dict_set(merged, Head(its).key, Head(its)), Tail(its))

(* `for template in templates` *)
RECURSIVE merge_from(_, _)
merge_from(merged, tmpls) ==
    IF tmpls = << >> THEN merged
    ELSE merge_from(merge_items(merged, items[Head(tmpls)]), Tail(tmpls))

merge_template_items(tmpls) == merge_from(<< >>, tmpls)

(* get_effective_config: chain_items = self.merge_template_items(chain) *)
MergeChain ==
    /\ rpc = "returned"
    /\ merged_items' = merge_template_items(resolved)
    /\ rpc' = "merged"
    /\ UNCHANGED << alerting_vars, api_vars, template_vars, given, chain, current,
                    visited, depth, error, resolved >>

(* Parent graphs: a line 1 -> 2 -> ... -> n of parents whose last template *)
(* has no parent or points back into the line, and every graph over the    *)
(* first MaxSmall templates.                                               *)
Line(n, back) == [i \in 1 .. n |-> IF i < n THEN i + 1 ELSE back]

Lines == {Line(n, back) : n \in TemplateIds, back \in {None}} \cup
         UNION {{Line(n, back) : back \in 1 .. n} : n \in TemplateIds}

SmallGraphs == [1 .. MaxSmall -> (1 .. MaxSmall) \cup {None}]

(* The items of template i: none, one, or one for each key. *)
ItemLists(i) ==
    {<< >>, << TemplateItem("k1", i) >>,
     << TemplateItem("k2", i), TemplateItem("k1", i) >>}

InitTemplates ==
    /\ now = 0
    /\ trigger = [t \in TriggerIds |-> TriggerRow(cpu_gt_2, TRUE, 0, None)]
    /\ last_state = [t \in TriggerIds |-> Null]
    /\ state_since = [t \in TriggerIds |-> None]
    /\ last_evaluated_at = [t \in TriggerIds |-> None]
    /\ windows = {}
    /\ pc = "tick_start"
    /\ loaded = << >>
    /\ ticks = 0
    /\ trigger_states = [t \in TriggerIds |-> Null]
    /\ created = << >>
    /\ alert_events = << >>
    /\ returned = << >>
    /\ tick_log = [t \in TriggerIds |-> NoTick]
    /\ EvalIdle
    /\ \/ /\ parent_template_id \in Lines
          /\ items = [i \in DOMAIN parent_template_id |-> << TemplateItem("k1", i) >>]
       \/ /\ parent_template_id \in SmallGraphs
          /\ \E its \in [1 .. MaxSmall -> UNION {ItemLists(i) : i \in 1 .. MaxSmall}] :
                /\ \A i \in 1 .. MaxSmall : its[i] \in ItemLists(i)
                /\ items = its
    /\ templates = DOMAIN parent_template_id
    /\ ResolverIdle
    /\ ApiIdle

NextTemplates ==
    \/ ResolveStart
    \/ ResolveStep
    \/ MergeChain

(* resolve_template_chain is a plain loop: once called it keeps running. *)
SpecTemplates ==
    /\ InitTemplates
    /\ [][NextTemplates]_vars
    /\ WF_vars(ResolveStep)

----------------------------------------------------------------------------
(* Template inheritance endpoint (api/templates.py)                        *)

MissingId == 0      \* an id that names no row of the templates table

(* `while current.parent_template:` from the new parent: "circular" when  *)
(* a parent met on the way is the template itself, "clear" when the walk   *)
(* reaches a root, "hang" when it would go round a cycle that does not     *)
(* contain the template.                                                   *)
RECURSIVE walk(_, _, _)
walk(cur, template_id, seen) ==
    LET next == parent_template_id[cur]
    IN  IF next = None THEN "clear"
        ELSE IF next = template_id THEN "circular"
        ELSE IF next \in seen THEN "hang"
        ELSE walk(next, template_id, seen \cup {next})

circular_parent_only(parent, template_id) ==
    IF parent_template_id[parent] = template_id THEN "circular" ELSE "clear"
circular(parent, template_id) == walk(parent, template_id, {parent})

(* PUT /templates/{template_id}/parent *)
set_parent_template ==
    /\ requests < MaxRequests
    /\ rpc = "idle"
    /\ requests' = requests + 1
    /\ \E template_id \in templates \cup {MissingId},
          parent \in templates \cup {MissingId, None} :
          /\ request' = [template_id |-> template_id, parent_template_id |-> parent]
          /\ IF template_id \notin templates
             THEN /\ response' = 404
                  /\ UNCHANGED parent_template_id
             ELSE IF parent = None
             THEN /\ parent_template_id' = [parent_template_id EXCEPT ![template_id] = None]
                  /\ response' = 200
             ELSE IF parent \notin templates
             THEN /\ response' = 404
                  /\ UNCHANGED parent_template_id
             ELSE IF parent = template_id
             THEN /\ response' = 400
                  /\ UNCHANGED parent_template_id
             ELSE /\ circular(parent, template_id) # "hang"
                  /\ IF circular(parent, template_id) = "circular"
                     THEN /\ response' = 400
                          /\ UNCHANGED parent_template_id
                     ELSE /\ parent_template_id' =
                                [parent_template_id EXCEPT ![template_id] = parent]
                          /\ response' = 200
    /\ UNCHANGED << alerting_vars, fn_vars, webhook_vars, assign_vars, command_vars,
                    resolver_vars, templates, items >>

(* Parent graphs without a cycle over the first MaxSmall templates. *)
Forests ==
    {g \in SmallGraphs :
        \A t \in 1 .. MaxSmall :
            \E path \in [0 .. MaxSmall -> (1 .. MaxSmall) \cup {None}] :
                /\ path[0] = t
                /\ \A n \in 1 .. MaxSmall :
                      path[n] = IF path[n - 1] = None THEN None ELSE g[path[n - 1]]
                /\ path[MaxSmall] = None}

InitParents ==
    /\ AlertingIdle
    /\ parent_template_id \in Forests
    /\ templates = DOMAIN parent_template_id
    /\ items = [i \in templates |-> << TemplateItem("k1", i) >>]
    /\ ResolverIdle
    /\ ApiIdle

NextParents == set_parent_template

SpecParents == InitParents /\ [][NextParents]_vars

(* A line of MaxTemplates - 1 templates, each set as the parent of the     *)
(* one before it by an accepted request, and one template without parent   *)
(* or child; one more request is handled before a chain is resolved.       *)
InitChains ==
    /\ AlertingIdle
    /\ parent_template_id =
          [i \in TemplateIds |-> IF i < MaxTemplates - 1 THEN i + 1 ELSE None]
    /\ templates = TemplateIds
    /\ items = [i \in templates |-> << TemplateItem("k1", i) >>]
    /\ ResolverIdle
    /\ FnIdle
    /\ WebhookIdle
    /\ AssignIdle
    /\ CommandsIdle
    /\ requests = MaxRequests - 1
    /\ request = NoRequest
    /\ response = None

NextChains ==
    \/ set_parent_template
    \/ ResolveStart
    \/ ResolveStep

SpecChains == InitChains /\ [][NextChains]_vars

----------------------------------------------------------------------------
(* Effective configuration of a device (services/template_resolver.py,     *)
(* api/templates.py)                                                       *)

(* Priorities a request stores: BulkAssignmentRequest.priority is any int. *)
Priorities == {-101, -100, 0, 5}

ConfigItem(key, template_id) ==
    [key |-> key, template_id |-> template_id, enabled |-> TRUE]

TemplateTrigger(template_id, enabled) ==
    [id |-> template_id, template |-> template_id, enabled |-> enabled]

(* resolve_template_chain(template, db) run to its return or its raise. *)
RECURSIVE resolve_walk(_, _, _, _)
resolve_walk(cur, chn, seen, dpt) ==
    IF cur = None THEN [raised |-> FALSE, chain |-> reversed(chn)]
    ELSE IF dpt > MAX_INHERITANCE_DEPTH THEN [raised |-> TRUE, chain |-> << >>]
    ELSE IF cur \in seen THEN [raised |-> TRUE, chain |-> << >>]
    ELSE resolve_walk(parent_template_id[cur], Append(chn, cur),
                      seen \cup {cur}, dpt + 1)

resolve_template_chain(template) == resolve_walk(template, << >>, {}, 0)

(* `for hostgroup in device.host_groups: for template in                   *)
(* hostgroup.templates` with seen_template_ids.                            *)
RECURSIVE from_host_groups(_, _)
from_host_groups(tmpls, seq) ==
    IF seq = << >> THEN tmpls
    ELSE IF \E i \in 1 .. Len(tmpls) : tmpls[i].template = Head(seq)
         THEN from_host_groups(tmpls, Tail(seq))
         ELSE from_host_groups(Append(tmpls, [template |-> Head(seq), priority |-> 0]),
                               Tail(seq))

(* `for assignment in direct_assignments` *)
RECURSIVE from_assignments(_, _)
from_assignments(tmpls, direct_assignments) ==
    IF direct_assignments = << >> THEN tmpls
    ELSE LET assignment == Head(direct_assignments)
             kept == SelectSeq(tmpls, LAMBDA e : e.template # assignment.template_id)
         IN  from_assignments(
                 Append(kept, [template |-> assignment.template_id,
                               priority |-> assignment.priority + 100]),
                 Tail(direct_assignments))

(* templates.sort(key=lambda x: x[1]): stable. *)
RECURSIVE sort_by_priority(_)
sort_by_priority(tmpls) ==
    IF tmpls = << >> THEN << >>
    ELSE LET n      == Len(tmpls)
             sorted == sort_by_priority(SubSeq(tmpls, 1, n - 1))
             k      == Cardinality({i \in 1 .. n - 1 :
                                      sorted[i].priority <= tmpls[n].priority})
         IN  SubSeq(sorted, 1, k) \o << tmpls[n] >> \o SubSeq(sorted, k + 1, n - 1)

(* The rows of device_template for the device in an order the database may *)
(* return for ORDER BY priority ASC.                                        *)
DirectAssignments ==
    {seq \in UNION {[1 .. n -> [template_id : DOMAIN device_template,
                                priority : Priorities]] :
                        n \in {Cardinality(DOMAIN device_template)}} :
        /\ \A i \in 1 .. Len(seq) : seq[i].priority = device_template[seq[i].template_id]
        /\ \A i, j \in 1 .. Len(seq) :
              i < j => /\ seq[i].template_id # seq[j].template_id
                       /\ seq[i].priority <= seq[j].priority}

get_device_templates(direct_assignments) ==
    LET tmpls == from_assignments(from_host_groups(<< >>, group_templates),
                                  direct_assignments)
        sorted == sort_by_priority(tmpls)
    IN  [i \in 1 .. Len(sorted) |-> sorted[i].template]

(* final_items.update(chain_items) *)
dict_update(d, e) ==
    [k \in DOMAIN d \cup DOMAIN e |-> IF k \in DOMAIN e THEN e[k] ELSE d[k]]

(* `for t in chain: for trigger in t.triggers: if trigger.enabled` *)
RECURSIVE chain_triggers(_)
chain_triggers(chn) ==
    IF chn = << >> THEN << >>
    ELSE SelectSeq(template_triggers[Head(chn)], LAMBDA trg : trg.enabled)
            \o chain_triggers(Tail(chn))

(* [t.name for t in chain if t.name not in config['templates']] *)
extend_names(names, chn) ==
    names \o SelectSeq(chn, LAMBDA t : \A i \in 1 .. Len(names) : names[i] # t)

(* `for template in device_templates` of get_effective_config *)
RECURSIVE effective(_, _)
effective(cfg, device_templates) ==
    IF device_templates = << >> THEN cfg
    ELSE LET res == resolve_template_chain(Head(device_templates))
         IN  IF res.raised THEN effective(cfg, Tail(device_templates))
             ELSE effective(
                    [cfg EXCEPT
                        !.templates = extend_names(@, res.chain),
                        !.final_items = dict_update(@, merge_template_items(res.chain)),
                        !.triggers = @ \o chain_triggers(res.chain)],
                    Tail(device_templates))

(* TemplateResolver.get_effective_config(device, db) *)
get_effective_config ==
    /\ config = NoConfig
    /\ \E direct_assignments \in DirectAssignments :
          LET device_templates == get_device_templates(direct_assignments)
              cfg == effective([templates |-> << >>, final_items |-> << >>,
                                triggers |-> << >>], device_templates)
          IN  config' =
                 [device_id |-> "d1",
                  device_templates |-> device_templates,
                  templates |-> cfg.templates,
                  items |-> [k \in {key \in DOMAIN cfg.final_items :
                                        cfg.final_items[key].enabled}
                                |-> cfg.final_items[k]],
                  triggers |-> cfg.triggers]
    /\ UNCHANGED << group_templates, device_template, template_triggers, assigned >>
    /\ UNCHANGED << alerting_vars, template_vars, resolver_vars, fn_vars,
                    webhook_vars, parent_vars, command_vars >>

(* POST /templates/{template_id}/assign for the device, with             *)
(* assign_template_to_device: insert the row or update its priority.       *)
bulk_assign_devices ==
    /\ assigned < MaxAssignments
    /\ config = NoConfig
    /\ assigned' = assigned + 1
    /\ \E template_id \in templates \cup {MissingId}, priority \in Priorities :
          IF template_id \notin templates
          THEN UNCHANGED device_template
          ELSE device_template' =
                  [t \in DOMAIN device_template \cup {template_id} |->
                      IF t = template_id THEN priority ELSE device_template[t]]
    /\ UNCHANGED << group_templates, template_triggers, config >>
    /\ UNCHANGED << alerting_vars, template_vars, resolver_vars, fn_vars,
                    webhook_vars, parent_vars, command_vars >>

GroupTemplateLists ==
    UNION {[1 .. n -> 1 .. MaxSmall] : n \in 0 .. MaxGroupTemplates}

(* Every template defines the key k1 and owns one trigger. *)
InitConfig ==
    /\ AlertingIdle
    /\ parent_template_id \in Forests
    /\ templates = DOMAIN parent_template_id
    /\ items = [i \in templates |-> << ConfigItem("k1", i) >>]
    /\ ResolverIdle
    /\ FnIdle
    /\ WebhookIdle
    /\ ParentIdle
    /\ CommandsIdle
    /\ group_templates \in GroupTemplateLists
    /\ device_template = << >>
    /\ \E en \in [1 .. MaxSmall -> BOOLEAN] :
          template_triggers = [i \in 1 .. MaxSmall |-> << TemplateTrigger(i, en[i]) >>]
    /\ assigned = 0
    /\ config = NoConfig

NextConfig ==
    \/ bulk_assign_devices
    \/ get_effective_config

SpecConfig == InitConfig /\ [][NextConfig]_vars

----------------------------------------------------------------------------
(* Remote command execution (api/commands.py)                              *)

CommandDevices == {"d1", "d2"}      \* rows of the devices table
UnknownDevice  == "d0"              \* an id that names no device

(* What an execute request carries: a template that requires approval, a  *)
(* template that does not, a direct command, neither, or the id of a      *)
(* template that does not exist.                                           *)
ExecuteKinds ==
    {"template", "template_no_approval", "command", "nothing", "unknown_template"}

CommandExecution(device_id, st) ==
    [device_id |-> device_id, status |-> st, approved_by |-> Null, exit_code |-> None]

other_command_vars ==
    << alerting_vars, template_vars, resolver_vars, fn_vars, webhook_vars,
       parent_vars, assign_vars >>

(* POST /commands/execute *)
queue_command_execution ==
    /\ Len(executions) < MaxExecutions
    /\ \E device_id \in CommandDevices \cup {UnknownDevice}, kind \in ExecuteKinds :
          IF device_id \notin CommandDevices \/ kind = "unknown_template"
          THEN /\ command_status' = 404
               /\ UNCHANGED executions
          ELSE IF kind = "nothing"
          THEN /\ command_status' = 400
               /\ UNCHANGED executions
          ELSE LET requires_approval == kind # "template_no_approval"
               IN  /\ executions' = Append(executions,
                          CommandExecution(device_id,
                              IF requires_approval THEN "pending" ELSE "approved"))
                   /\ command_status' = 201
    /\ UNCHANGED << polled, other_command_vars >>

(* POST /commands/executions/{execution_id}/approve *)
approve_execution ==
    /\ \E execution_id \in 1 .. MaxExecutions :
          IF execution_id \notin DOMAIN executions
          THEN /\ command_status' = 404
               /\ UNCHANGED executions
          ELSE IF executions[execution_id].status # "pending"
          THEN /\ command_status' = 400
               /\ UNCHANGED executions
          ELSE /\ executions' = [executions EXCEPT
                                    ![execution_id].status = "approved",
                                    ![execution_id].approved_by = "admin"]
               /\ command_status' = 200
    /\ UNCHANGED << polled, other_command_vars >>

(* POST /commands/executions/{execution_id}/reject *)
reject_execution ==
    /\ \E execution_id \in 1 .. MaxExecutions :
          IF execution_id \notin DOMAIN executions
          THEN /\ command_status' = 404
               /\ UNCHANGED executions
          ELSE IF executions[execution_id].status # "pending"
          THEN /\ command_status' = 400
               /\ UNCHANGED executions
          ELSE /\ executions' = [executions EXCEPT ![execution_id].status = "cancelled"]
               /\ command_status' = 200
    /\ UNCHANGED << polled, other_command_vars >>

(* GET /commands/agent/{device_id}/pending *)
get_pending_commands_for_device ==
    /\ \E device_id \in CommandDevices \cup {UnknownDevice} :
          IF device_id \notin CommandDevices
          THEN /\ command_status' = 404
               /\ UNCHANGED polled
          ELSE /\ polled' =
                     LET ids == SelectSeq([i \in 1 .. Len(executions) |-> i],
                                    LAMBDA i : /\ executions[i].device_id = device_id
                                               /\ executions[i].status = "approved")
                     IN  [k \in 1 .. Len(ids) |->
                             [id |-> ids[k], status |-> executions[ids[k]].status]]
               /\ command_status' = 200
    /\ UNCHANGED << executions, other_command_vars >>

(* POST /commands/agent/{device_id}/result *)
submit_command_result ==
    /\ \E device_id \in CommandDevices \cup {UnknownDevice},
          execution_id \in 1 .. MaxExecutions, exit_code \in {0, 1} :
          IF \/ execution_id \notin DOMAIN executions
             \/ executions[execution_id].device_id # device_id
          THEN /\ command_status' = 404
               /\ UNCHANGED executions
          ELSE /\ executions' = [executions EXCEPT
                     ![execution_id].status =
                         IF exit_code = 0 THEN "completed" ELSE "failed",
                     ![execution_id].exit_code = exit_code]
               /\ command_status' = 200
    /\ UNCHANGED << polled, other_command_vars >>

InitCommands ==
    /\ AlertingIdle
    /\ NoTemplates
    /\ ApiIdle

NextCommands ==
    \/ queue_command_execution
    \/ approve_execution
    \/ reject_execution
    \/ get_pending_commands_for_device
    \/ submit_command_result

SpecCommands == InitCommands /\ [][NextCommands]_vars

----------------------------------------------------------------------------
(* Properties of the scheduler (Spec)                                      *)

EventsOf(t) == SelectSeq(created, LAMBDA e : e.trigger_id = t)

(* C1: on the scheduler path an alert event is created for a trigger only  *)
(* on a tick whose verdict differs from the trigger's previously confirmed *)
(* state (and it carries that verdict); a tick that re-evaluates an        *)
(* unchanged state creates no event; so two consecutive events of one      *)
(* trigger never carry the same status.                                    *)
C1_EventOnlyOnConfirmedChange ==
    /\ [][ /\ created' # created =>
                /\ Len(created') = Len(created) + 1
                /\ SubSeq(created', 1, Len(created)) = created
                /\ LET e == created'[Len(created')]
                   IN  /\ e.status # old_state_of(trigger_states, e.trigger_id)
                       /\ e.status = trigger_states'[e.trigger_id]
                       /\ e.status = tick_log'[e.trigger_id].new_state
           /\ \A t \in TriggerIds :
                (/\ tick_log'[t] # tick_log[t]
                 /\ tick_log'[t].new_state = old_state_of(trigger_states, t))
                => created' = created ]_vars
    /\ [] \A t \in TriggerIds :
            \A i \in 1 .. Len(EventsOf(t)) - 1 :
                EventsOf(t)[i].status # EventsOf(t)[i + 1].status

(* A tick found a trigger still in PROBLEM after its PROBLEM event and     *)
(* created nothing.                                                        *)
C1_Witness ==
    \E t \in TriggerIds :
        /\ Len(EventsOf(t)) = 1
        /\ tick_log[t].new_state = "PROBLEM"
        /\ tick_log[t].old_state = "PROBLEM"
        /\ ~ tick_log[t].event
        /\ tick_log[t].time > EventsOf(t)[1].created_at

(* C2: for a trigger with duration D > 0 whose raw verdict is PROBLEM on   *)
(* every tick from t0 on, the scheduler creates no event before t0 + D and *)
(* exactly one PROBLEM event once the duration is satisfied.               *)
C2_NoEventBeforeDuration ==
    \A t \in TriggerIds :
        (trigger[t].duration > 0 /\ tick_log[t].new_state = "PROBLEM") =>
            LET t0   == tick_log[t].since
                seen == SelectSeq(EventsOf(t), LAMBDA e : e.created_at >= t0)
            IN  IF tick_log[t].time < t0 + trigger[t].duration
                THEN seen = << >>
                ELSE Len(seen) = 1 /\ seen[1].status = "PROBLEM"

Parent(t) == trigger[t].parent_trigger_id

(* C5: on a scheduler tick no alert event is created for a trigger whose   *)
(* parent trigger's last confirmed state is PROBLEM.                       *)
C5_NoEventUnderProblemParent ==
    [][ created' # created =>
            LET e == created'[Len(created')]
                p == Parent(e.trigger_id)
            IN  ~ (p \in TriggerIds /\ trigger_states[p] = "PROBLEM") ]_vars

(* C6: on a scheduler tick that runs while an active maintenance window    *)
(* covers the trigger's device (here: every device) no alert event is      *)
(* created and the trigger's recorded state is left unchanged.             *)
C6_NoEventInMaintenance ==
    [][ (\A d \in Devices : is_device_in_maintenance(d, windows, now)) =>
            /\ created' = created
            /\ trigger_states' = trigger_states ]_vars

----------------------------------------------------------------------------
(* Properties of ExpressionEvaluator.evaluate_trigger (SpecEval)           *)

Evaluated(c) == c.kind \in {"held", "done"}

(* C3: with duration D > 0, should_alert is true on a call only if the raw *)
(* verdict was PROBLEM on every evaluated call since state_since and       *)
(* now - state_since >= D.                                                 *)
C3_AlertOnlyAfterContinuousProblem ==
    \A t \in TriggerIds :
        (/\ call.trigger_id = t
         /\ trigger[t].duration > 0
         /\ result.should_alert) =>
            /\ clean[t]
            /\ state_since[t] # None
            /\ now - state_since[t] >= trigger[t].duration

(* C4: a call for a trigger whose parent has last_state = PROBLEM leaves   *)
(* the child's last_state, state_since and last_evaluated_at as they were  *)
(* and returns should_alert = false, whatever values are supplied.         *)
C4_SuppressionIsNoOp ==
    [][ \A t \in TriggerIds :
            (/\ calls' # calls
             /\ call'.trigger_id = t
             /\ Parent(t) \in TriggerIds
             /\ last_state[Parent(t)] = "PROBLEM") =>
                /\ last_state'[t] = last_state[t]
                /\ state_since'[t] = state_since[t]
                /\ last_evaluated_at'[t] = last_evaluated_at[t]
                /\ ~ result'.should_alert ]_vars

(* An already evaluated child was called with values whose raw verdict is  *)
(* PROBLEM while its parent was in PROBLEM.                                *)
C4_Witness ==
    /\ call.trigger_id = 2
    /\ call.kind = "suppressed"
    /\ call.raw = "PROBLEM"
    /\ last_state[1] = "PROBLEM"
    /\ last_state[2] = "OK"
    /\ last_evaluated_at[2] < now

(* C7: whatever the trigger type, if last_state = PROBLEM and a            *)
(* recovery_expression is set, a call whose raw verdict is not PROBLEM and *)
(* whose recovery_expression is true for none of the supplied values       *)
(* leaves last_state = PROBLEM.                                            *)
C7_HysteresisSticky ==
    [][ \A t \in TriggerIds :
            (/\ calls' # calls
             /\ call'.trigger_id = t
             /\ Evaluated(call')
             /\ last_state[t] = "PROBLEM"
             /\ trigger[t].recovery_expression # NoExpr
             /\ call'.raw # "PROBLEM"
             /\ ~ call'.recovery_true) =>
                last_state'[t] = "PROBLEM" ]_vars

(* C8: on every evaluated call state_since is set to the call's time if    *)
(* the raw verdict differs from the raw verdict of the previous evaluated  *)
(* call, and is left alone otherwise.                                      *)
C8_StateSinceFollowsRawVerdict ==
    [][ \A t \in TriggerIds :
            (/\ calls' # calls
             /\ call'.trigger_id = t
             /\ Evaluated(call')) =>
                IF call'.raw # prev_raw[t]
                THEN state_since'[t] = now'
                ELSE state_since'[t] = state_since[t] ]_vars

(* C9: a trigger with duration D > 0 whose raw verdict was never PROBLEM   *)
(* for D consecutive seconds never gets should_alert = true and its        *)
(* last_state is never changed (checked as: never moved to PROBLEM).       *)
C9_NoAlertNoStateWithoutSustainedProblem ==
    \A t \in TriggerIds :
        (trigger[t].duration > 0 /\ ~ sustained[t]) =>
            /\ alerted[t] = 0
            /\ last_state[t] # "PROBLEM"

(* C10: every call that is not suppressed and has a metric value sets      *)
(* last_evaluated_at to the call's time.                                   *)
C10_LastEvaluatedAtEveryCall ==
    \A t \in TriggerIds :
        (call.trigger_id = t /\ Evaluated(call)) =>
            last_evaluated_at[t] = call.now

(* C11: should_alert is reported at most once per confirmed transition     *)
(* into PROBLEM: when a call for a trigger reported should_alert and the   *)
(* next call is for the same trigger with a raw verdict that is still      *)
(* PROBLEM, that next call reports should_alert = false.                   *)
C11_AlertOncePerTransition ==
    [][ \A t \in TriggerIds :
            (/\ calls' # calls
             /\ call.trigger_id = t
             /\ result.should_alert
             /\ last_state[t] = "PROBLEM"
             /\ call'.trigger_id = t
             /\ Evaluated(call')
             /\ call'.raw = "PROBLEM") =>
                ~ result'.should_alert ]_vars

(* The expression of a simple trigger does not parse. *)
Unparsable(t) ==
    /\ ~ (trigger[t].expression_type = "compound"
          /\ trigger[t].compound_expression # NoCompound)
    /\ parse_simple_expression(trigger[t].expression) = NoParse

(* C12: a call with a value for a trigger whose expression cannot be       *)
(* parsed yields state UNKNOWN with should_alert = false and leaves        *)
(* last_state and state_since as they were before the call.                *)
C12_UnparsableLeavesState ==
    [][ \A t \in TriggerIds :
            (/\ calls' # calls
             /\ call'.trigger_id = t
             /\ Evaluated(call')
             /\ Unparsable(t)) =>
                /\ result'.state = "UNKNOWN"
                /\ ~ result'.should_alert
                /\ last_state'[t] = last_state[t]
                /\ state_since'[t] = state_since[t] ]_vars

----------------------------------------------------------------------------
(* Properties of the scheduler: errors inside a tick (Spec)                *)

(* The pattern of parse_threshold finds a comparator and a threshold. *)
Recognizable(expression) ==
    threshold_op(expression.op) # << >> /\ expression.thr # None

(* C13: on the scheduler path a trigger whose expression has no            *)
(* recognizable comparator and threshold (such as `external:grafana`)      *)
(* never gets an alert event and never changes its recorded state,         *)
(* whatever value the backend returns.                                     *)
C13_UnrecognizedExpressionInert ==
    [][ \A t \in TriggerIds :
            ~ Recognizable(trigger[t].expression) =>
                /\ trigger_states'[t] = trigger_states[t]
                /\ EventsOf(t)' = EventsOf(t) ]_vars

(* The trigger at the head of `loaded` is evaluated by this step. *)
EvaluatesHead == pc = "evaluating" /\ loaded # << >> /\ tick_log' # tick_log

(* C14: when the backend yields no value for a trigger on a tick (no data, *)
(* a query error, or no metric name in the expression) its evaluation      *)
(* raises nothing (the loop goes on to the next trigger), creates no       *)
(* event and leaves trigger_states, last_state, state_since and            *)
(* last_evaluated_at unchanged.                                            *)
C14_NoDataSkipsTrigger ==
    [][ EvaluatesHead =>
            LET t == Head(loaded)
            IN  (tick_log'[t].no_data \/ trigger[t].expression.metric = Null) =>
                    /\ trigger_states' = trigger_states
                    /\ created' = created
                    /\ alert_events' = alert_events
                    /\ returned' = returned
                    /\ UNCHANGED trigger_vars
                    /\ pc' = "evaluating"
                    /\ loaded' = Tail(loaded) ]_vars

(* A trigger confirmed in PROBLEM got no data on a later tick and kept its *)
(* state without an event.                                                 *)
C14_Witness ==
    \E t \in TriggerIds :
        /\ tick_log[t].no_data
        /\ tick_log[t].time > 0
        /\ tick_log[t].old_state = "PROBLEM"
        /\ ~ tick_log[t].event
        /\ trigger_states[t] = "PROBLEM"
        /\ Len(EventsOf(t)) = 1

ThisTick(events) == SelectSeq(events, LAMBDA e : e.created_at = now)

C16_LoopSurvivesTickErrors ==
    /\ [] (pc \in {"tick_start", "evaluating", "sleeping"})
    /\ [][ (pc = "sleeping" /\ pc' # pc) =>
                (pc' = "tick_start" /\ now' = now + ALERTING_INTERVAL) ]_vars
    /\ [][ ticks' # ticks =>
                (pc = "tick_start" /\ loaded = << >> /\ ticks' = ticks + 1) ]_vars
    /\ (pc = "evaluating") ~> (pc = "sleeping")
    /\ (pc = "sleeping") ~> (pc = "tick_start")
    /\ \A k \in 0 .. MaxTicks - 1 : (ticks = k) ~> (ticks = k + 1)

(* The first tick failed before any trigger was evaluated; the loop slept  *)
(* one interval and the second tick is under way.                          *)
C16_Witness ==
    /\ ticks = 2
    /\ pc = "evaluating"
    /\ now = ALERTING_INTERVAL
    /\ loaded = enabled_from(1)
    /\ \A t \in TriggerIds : tick_log[t] = NoTick

(* The events of trigger t in the alert_events table. *)
PersistedOf(t) == SelectSeq(alert_events, LAMBDA e : e.trigger_id = t)

(* C28: a confirmed state change is never recorded without its alert       *)
(* event: the in-memory state of a trigger that has changed state equals   *)
(* the status of its latest persisted event, also after db.commit raised.  *)
C28_StateNeverAheadOfEvents ==
    \A t \in TriggerIds :
        trigger_states[t] # Null =>
            /\ PersistedOf(t) # << >>
            /\ PersistedOf(t)[Len(PersistedOf(t))].status = trigger_states[t]

----------------------------------------------------------------------------
(* Properties of the scheduler: shutdown and restart (SpecShutdown)        *)

(* C17: cancellation takes effect only between ticks: when the loop has    *)
(* terminated, no trigger loaded for a tick is left unevaluated.           *)
C17_CancelOnlyBetweenTicks ==
    pc = "cancelled" => loaded = << >>

Last(events) == events[Len(events)]

(* C18: the confirmed state survives a restart: on the first evaluation    *)
(* with a value after the in-memory states were lost, a trigger whose last *)
(* event was PROBLEM gets no second PROBLEM event if its raw verdict is    *)
(* still PROBLEM, and gets an OK event if its raw verdict is OK.           *)
C18_ConfirmedStateSurvivesRestart ==
    [][ EvaluatesHead =>
            LET t == Head(loaded)
            IN  (/\ trigger_states[t] = Null
                 /\ EventsOf(t) # << >>
                 /\ Last(EventsOf(t)).status = "PROBLEM") =>
                    /\ tick_log'[t].new_state = "PROBLEM" =>
                            EventsOf(t)' = EventsOf(t)
                    /\ tick_log'[t].new_state = "OK" =>
                            /\ Len(EventsOf(t)') = Len(EventsOf(t)) + 1
                            /\ Last(EventsOf(t)').status = "OK" ]_vars

----------------------------------------------------------------------------
(* Properties of TemplateResolver (SpecTemplates)                          *)

(* The n-th ancestor of template t in the parent graph (None past the root). *)
RECURSIVE Ancestor(_, _)
Ancestor(t, n) ==
    IF n = 0 THEN t
    ELSE LET a == Ancestor(t, n - 1)
         IN  IF a = None THEN None ELSE parent_template_id[a]

(* Number of templates from t up to its root; None when the walk from t    *)
(* runs into a cycle.                                                      *)
ChainLength(t) ==
    LET N == Cardinality(templates)
    IN  IF \E n \in 1 .. N : Ancestor(t, n) = None
        THEN CHOOSE n \in 1 .. N :
                Ancestor(t, n) = None /\ Ancestor(t, n - 1) # None
        ELSE None

(* C19: resolve_template_chain terminates on every parent graph, cyclic    *)
(* ones included: it raises the cycle/depth error when the walk from the   *)
(* given template revisits an id or needs more than the maximum depth, and *)
(* otherwise returns the chain root first, the given template last, each   *)
(* element the parent of the next.                                         *)
C19_ResolveTerminates ==
    /\ (rpc = "walking") ~> (rpc # "walking")
    /\ [] (depth <= MAX_INHERITANCE_DEPTH + 1)
    /\ [] (rpc \in {"raised", "returned", "merged"} =>
            LET n == ChainLength(given)
            IN  IF n = None \/ n > MAX_INHERITANCE_DEPTH + 1
                THEN /\ rpc = "raised"
                     /\ error \in {"cycle", "depth"}
                     /\ error = "cycle" => current \in visited
                     /\ error = "depth" => depth > MAX_INHERITANCE_DEPTH
                ELSE /\ rpc # "raised"
                     /\ Len(resolved) = n
                     /\ \A i \in 1 .. n : resolved[i] = Ancestor(given, n - i)
                     /\ resolved[n] = given
                     /\ parent_template_id[resolved[1]] = None
                     /\ \A i \in 1 .. n - 1 :
                            parent_template_id[resolved[i + 1]] = resolved[i])

(* The walk came back to a template it had visited, two or more templates  *)
(* up, and was stopped by the cycle error.                                 *)
C19_Witness ==
    /\ rpc = "raised"
    /\ error = "cycle"
    /\ Len(chain) >= 2
    /\ current = given

(* Template t has an item with key k. *)
Defines(t, k) == \E j \in 1 .. Len(items[t]) : items[t][j].key = k

(* C20: merge_template_items applied to the resolved chain returns exactly *)
(* the union of the item keys of the chain's templates, and for each key   *)
(* the item of the most-derived template that defines the key.             *)
C20_ChildItemOverridesParent ==
    rpc = "merged" =>
        LET n == ChainLength(given)
            defining(k) == {d \in 0 .. n - 1 : Defines(Ancestor(given, d), k)}
        IN  /\ DOMAIN merged_items = {k \in ItemKeys : defining(k) # {}}
            /\ \A k \in DOMAIN merged_items :
                  LET d == CHOOSE d \in defining(k) : \A e \in defining(k) : d <= e
                  IN  merged_items[k] = TemplateItem(k, Ancestor(given, d))

(* A chain of three templates that all define k1, while only the root      *)
(* defines k2: k1 comes from the given template and k2 from the root.      *)
C20_Witness ==
    /\ rpc = "merged"
    /\ Len(resolved) = 3
    /\ \A i \in 1 .. 3 : Defines(resolved[i], "k1")
    /\ Defines(resolved[1], "k2")
    /\ ~ Defines(resolved[2], "k2")
    /\ ~ Defines(resolved[3], "k2")
    /\ merged_items["k1"].template_id = given
    /\ merged_items["k2"].template_id = resolved[1]

----------------------------------------------------------------------------
(* Properties of SpecFn                                                    *)

(* `a op b` for the comparators of the closed set. *)
Holds(op, a, b) ==
    CASE op = GT -> a > b
      [] op = LT -> a < b
      [] op = GE -> a >= b
      [] op = LE -> a <= b
      [] op \in {EQ1, EQ2} -> a = b
      [] op \in {NE1, NE2} -> a # b

Called(fn) == fn_call.fn = fn /\ fn_ret # NoRet

(* The condition is true: its metric has a value and `value op threshold` *)
(* holds.                                                                  *)
ConditionTrue(cond, values) ==
    /\ cond.metric \in DOMAIN values
    /\ Holds(cond.operator, values[cond.metric], cond.value)

(* A compound expression of the documented form: a JSON object, operator  *)
(* and/or (any case, `and` when absent), comparators of the closed set    *)
(* and numeric thresholds.                                                 *)
WellFormedCompound(expr) ==
    /\ expr.json = "object"
    /\ expr.operator \in {"and", "or", "AND", Null}
    /\ \A i \in 1 .. Len(expr.conditions) :
          /\ expr.conditions[i].operator \in OPERATORS
          /\ expr.conditions[i].value # BadNumber

Combination(expr, values) ==
    IF expr.operator = "or"
    THEN \E i \in 1 .. Len(expr.conditions) : ConditionTrue(expr.conditions[i], values)
    ELSE \A i \in 1 .. Len(expr.conditions) : ConditionTrue(expr.conditions[i], values)

(* C23 as stated: evaluate_compound returns PROBLEM exactly when the       *)
(* logical combination of its conditions holds (and: every condition, or:  *)
(* at least one), a condition with a missing metric counting as false and  *)
(* raising nothing; otherwise it returns OK.                               *)
C23_CompoundIsLogicalCombination ==
    (Called("evaluate_compound") /\ WellFormedCompound(fn_call.expression)) =>
        /\ ~ fn_ret.raised
        /\ fn_ret.state =
              IF Combination(fn_call.expression, fn_call.value) THEN "PROBLEM" ELSE "OK"
        /\ fn_ret.is_problem = (fn_ret.state = "PROBLEM")

(* C23 amended: for a non-empty list of conditions evaluate_compound       *)
(* returns PROBLEM exactly when the logical combination of its conditions  *)
(* holds, a missing metric counting as false and raising nothing, and OK   *)
(* otherwise; for an empty list of conditions it returns OK.               *)
C23_NonEmptyCompoundIsLogicalCombination ==
    (Called("evaluate_compound") /\ WellFormedCompound(fn_call.expression)) =>
        /\ ~ fn_ret.raised
        /\ fn_ret.state =
              IF /\ fn_call.expression.conditions # << >>
                 /\ Combination(fn_call.expression, fn_call.value)
              THEN "PROBLEM" ELSE "OK"
        /\ fn_ret.is_problem = (fn_ret.state = "PROBLEM")

(* "cpu > 1 or mem > 1" with cpu = 2 and no value for mem is PROBLEM. *)
C23_Witness ==
    /\ Called("evaluate_compound")
    /\ fn_call.expression =
          [json |-> "object", operator |-> "or",
           conditions |-> << [metric |-> "mem", operator |-> GT, value |-> 1],
                             [metric |-> "cpu", operator |-> GT, value |-> 1] >>]
    /\ DOMAIN fn_call.value = {"cpu"}
    /\ fn_call.value["cpu"] = 2
    /\ fn_ret = [raised |-> FALSE, is_problem |-> TRUE, state |-> "PROBLEM"]

(* The inputs the claim calls malformed. *)
MalformedSimple(expression) ==
    /\ expression.metric # Null
    /\ expression.op # << >>
    /\ expression.thr = BadNumber \/ expression.op \notin OPERATORS

MalformedCompound(expr) ==
    \/ expr.json \in {"invalid", "array"}
    \/ \E i \in 1 .. Len(expr.conditions) : expr.conditions[i].value = BadNumber

(* C24: evaluate_simple and evaluate_compound never raise to the caller;   *)
(* on a malformed input (a threshold token that is not a number, an        *)
(* unknown comparator, invalid JSON, JSON that is not an object, a         *)
(* non-numeric condition value) they return (false, UNKNOWN).              *)
C24_EvaluatorsNeverRaise ==
    /\ (Called("evaluate_simple") \/ Called("evaluate_compound")) => ~ fn_ret.raised
    /\ \/ Called("evaluate_simple") /\ MalformedSimple(fn_call.expression)
       \/ Called("evaluate_compound") /\ MalformedCompound(fn_call.expression)
       => fn_ret = [raised |-> FALSE, is_problem |-> FALSE, state |-> "UNKNOWN"]

(* C25: for `metric op threshold` with op any comparator of the closed set *)
(* and every value, parse_threshold returns PROBLEM exactly when           *)
(* `value op threshold` holds and OK otherwise.                            *)
C25_ParseThresholdClosedSet ==
    (/\ Called("parse_threshold")
     /\ fn_call.expression.metric = "cpu"
     /\ fn_call.expression.op \in OPERATORS
     /\ fn_call.expression.thr \in Thresholds) =>
        /\ ~ fn_ret.raised
        /\ fn_ret.state =
              IF Holds(fn_call.expression.op, fn_call.value, fn_call.expression.thr)
              THEN "PROBLEM" ELSE "OK"

----------------------------------------------------------------------------
(* Properties of SpecIngest                                                *)

(* C26: every persisted alert event has status PROBLEM or OK, whether the *)
(* scheduler's trigger evaluation or the webhook created it.               *)
C26_EventStatusProblemOrOk ==
    \A i \in 1 .. Len(alert_events) : alert_events[i].status \in {"PROBLEM", "OK"}

----------------------------------------------------------------------------
(* Properties of SpecParents and SpecChains                                *)

(* No template is its own ancestor. *)
Acyclic == \A t \in templates : ChainLength(t) # None

(* Making p the parent of t would make t its own parent or ancestor. *)
WouldCycle(t, p) ==
    /\ t \in templates
    /\ p \in templates
    /\ \E n \in 0 .. Cardinality(templates) : Ancestor(p, n) = t

(* C27: starting from an acyclic parent graph, the graph is acyclic after  *)
(* any sequence of set_parent_template requests; a request that would make *)
(* a template its own parent or ancestor is answered 400 and leaves        *)
(* parent_template_id unchanged.                                           *)
C27_ParentGraphStaysAcyclic ==
    /\ [] Acyclic
    /\ [][ (/\ requests' # requests
            /\ WouldCycle(request'.template_id, request'.parent_template_id))
           => (response' = 400 /\ parent_template_id' = parent_template_id) ]_vars

(* The request to make the leaf of the line 1 -> 2 -> 3 the parent of its  *)
(* root was answered 400.                                                  *)
C27_Witness ==
    /\ parent_template_id = Line(3, None)
    /\ request = [template_id |-> 3, parent_template_id |-> 1]
    /\ response = 400

(* C29: in a parent graph built through accepted set_parent_template       *)
(* requests resolve_template_chain succeeds for every template.            *)
C29_AcceptedChainsResolve == rpc # "raised"

----------------------------------------------------------------------------
(* Properties of SpecConfig                                                *)

Position(seq, x) == CHOOSE i \in 1 .. Len(seq) : seq[i] = x

(* Templates that reach the device only through its host groups. *)
GroupOnly ==
    {group_templates[i] : i \in 1 .. Len(group_templates)} \ DOMAIN device_template

(* C21: whatever priority is stored for a direct assignment, the directly  *)
(* assigned template is ordered after every host-group-derived template   *)
(* by get_device_templates, and for a key both define the effective        *)
(* configuration holds the item of a directly assigned template.           *)
C21_DirectOutranksHostGroup ==
    config # NoConfig =>
        /\ \A d \in DOMAIN device_template : \A h \in GroupOnly :
              Position(config.device_templates, d) > Position(config.device_templates, h)
        /\ DOMAIN device_template # {} =>
              config.items["k1"].template_id \in DOMAIN device_template

(* C22: in the result of get_effective_config every trigger id appears at  *)
(* most once and only enabled triggers appear.                             *)
C22_TriggersOnceAndEnabled ==
    config # NoConfig =>
        /\ \A i, j \in 1 .. Len(config.triggers) :
              config.triggers[i].id = config.triggers[j].id => i = j
        /\ \A i \in 1 .. Len(config.triggers) : config.triggers[i].enabled

----------------------------------------------------------------------------
(* Properties of SpecCommands                                              *)

Finished == {"completed", "failed"}

(* C30: an execution becomes completed or failed only from the approved   *)
(* state: one that is pending or was rejected (cancelled) is never moved  *)
(* to completed or failed, and the pending-commands poll returns only     *)
(* approved executions.                                                    *)
C30_FinishedOnlyAfterApproval ==
    /\ [][ \A i \in DOMAIN executions :
              (executions'[i].status \in Finished /\ executions[i].status \notin Finished)
                  => executions[i].status = "approved" ]_vars
    /\ [] \A k \in 1 .. Len(polled) : polled[k].status = "approved"

====
